---- MODULE Spec2Model ----
(***************************************************************************)
(* Model of src/trader_tools.py: the trade-ledger tools of the "Trading"   *)
(* MCP server.  The ledger `df` is loaded once (line 28) and every tool is *)
(* a read-only fold over it.  Reading the table is modelled row by row, so *)
(* that every table trading at most MaxUnits shares is read; row j carries *)
(* date j.                                                                 *)
(*                                                                         *)
(* Money is counted in ticks of 1/5 cent (0.002 dollars), so that prices   *)
(* with a sub-cent part exist and round(x, 2) is a real conversion: it     *)
(* maps a tick amount to the nearest multiple of 5 ticks.  With 5 ticks to *)
(* the cent no amount lies half-way between two cents, so the result of    *)
(* round() does not depend on the binary representation of a tie.          *)
(* Floating-point error below one tick is not modelled.                    *)
(*                                                                         *)
(* realized_gains and validate_trades are modelled row by row (one step    *)
(* per iteration of their `for` loop); the other tools are one action      *)
(* each.  One tool call is in flight at a time: calls share nothing but    *)
(* the ledger.  A finished call keeps its result until the server has      *)
(* sent it (Respond) and waits for the next request.                       *)
(***************************************************************************)
EXTENDS Integers, Sequences, FiniteSets, TLC

\* ---------------------------------------------------------------- bounds
\* total number of shares over all rows of the ledger (so also its length)
MaxUnits == 4
\* largest share count passed to simulate_sell
MaxSimShares == 3

Symbols == {"AAPL", "GOOG"}
Types == {"Buy", "Sell"}
\* price_per_share values of the ledger, in ticks (0.004 and 0.01 dollars)
LedgerPrices == {2, 5}
\* the price the provider can quote, in ticks (0.006 dollars)
LivePrices == {3}
\* share counts passed to simulate_sell (0 is the non-positive one)
SimShares == 0..MaxSimShares

\* -1.0 dollars in ticks: the value get_live_price returns on failure
Sentinel == -500

VARIABLES
  df,          \* the ledger: sequence of rows [date, symbol, type, shares, price_per_share]
  ledger0,     \* history: the ledger as read by read_csv
  call,        \* the tool call in flight or last finished: [tool, symbol, shares, done]
  i,           \* number of rows the running row-by-row call has processed
  buy_queues,  \* realized_gains: symbol -> FIFO queue of <<shares, price>>
  gains,       \* realized_gains: accumulator
  balances,    \* validate_trades: symbol -> running balance
  errors,      \* validate_trades: violations so far
  fetched,     \* history: what the price provider answered during the call
  result       \* return value of the finished call: [kind, value, raw]

vars == <<df, ledger0, call, i, buy_queues, gains, balances, errors, fetched, result>>

\* ---------------------------------------------------------------- helpers
Min(a, b) == IF a < b THEN a ELSE b

EmptyDict == [k \in {} |-> 0]

\* defaultdict(deque) / defaultdict(list) lookup
Get(d, k) == IF k \in DOMAIN d THEN d[k] ELSE <<>>

\* defaultdict(int) lookup
Get0(d, k) == IF k \in DOMAIN d THEN d[k] ELSE 0

\* d[k] = v
Put(d, k, v) == [x \in (DOMAIN d) \cup {k} |-> IF x = k THEN v ELSE d[x]]

\* round(x, 2) on an amount in ticks: nearest whole cent, as ticks
Round2(x) == ((x + 2) \div 5) * 5

RECURSIVE SumShares(_)
\* sum(q for q, _ in buys)
SumShares(lots) ==
  IF lots = <<>> THEN 0 ELSE lots[1][1] + SumShares(Tail(lots))

RECURSIVE SumCost(_)
\* sum(q * p for q, p in buys)
SumCost(lots) ==
  IF lots = <<>> THEN 0 ELSE lots[1][1] * lots[1][2] + SumCost(Tail(lots))

NoCall == [tool |-> "none", symbol |-> "", shares |-> 0, done |-> FALSE]
NoResult == [kind |-> "none", value |-> 0, raw |-> 0]
Float(raw) == [kind |-> "float", value |-> Round2(raw), raw |-> raw]

\* ---------------------------------------------------------------- ledger
\* the rows a table can hold at position j that trade n shares: the date of
\* row j is j, the type is Buy or Sell, the price is not negative
Rows(j, n) ==
  [date : {j}, symbol : Symbols, type : Types, shares : {n},
   price_per_share : LedgerPrices]

RECURSIVE TotalShares(_)
\* the shares a table trades in all
TotalShares(d) == IF d = <<>> THEN 0 ELSE d[1].shares + TotalShares(Tail(d))

\* ---------------------------------------------------------------- price provider
\* what yfinance can answer: a last_price, or nothing (None / an exception)
ProviderAnswers ==
  [ok : {TRUE}, price : LivePrices] \cup {[ok |-> FALSE, price |-> 0]}

get_live_price(answer) == IF answer.ok THEN answer.price ELSE Sentinel

\* ---------------------------------------------------------------- portfolio
\* one iteration of the loop of portfolio()
PortfolioRow(holdings, row) ==
  IF row.type = "Buy"
    THEN Put(holdings, row.symbol, Get0(holdings, row.symbol) + row.shares)
    ELSE Put(holdings, row.symbol, Get0(holdings, row.symbol) - row.shares)

RECURSIVE PortfolioHoldings(_, _)
\* holdings after the first k rows
PortfolioHoldings(d, k) ==
  IF k = 0 THEN EmptyDict ELSE PortfolioRow(PortfolioHoldings(d, k - 1), d[k])

\* faulty variant of PortfolioResult: the filter keeps zero balances (v >= 0)
PortfolioResultNonNegative(holdings) ==
  [s \in {k \in DOMAIN holdings : holdings[k] >= 0} |-> holdings[s]]

\* {k: v for k, v in holdings.items() if v > 0}
PortfolioResult(holdings) ==
  [s \in {k \in DOMAIN holdings : holdings[k] > 0} |-> holdings[s]]

portfolio(d) == PortfolioResult(PortfolioHoldings(d, Len(d)))

\* ---------------------------------------------------------------- realized_gains
RECURSIVE RealizedMatchNewest(_, _, _, _)
\* faulty variant of RealizedMatch: the Sell is matched against the newest lot first
RealizedMatchNewest(queue, shares, price, acc) ==
  IF shares > 0 /\ queue # <<>>
    THEN LET buy_shares == queue[Len(queue)][1]
             buy_price == queue[Len(queue)][2]
             matched == Min(shares, buy_shares)
         IN RealizedMatchNewest(
              IF matched = buy_shares
                THEN SubSeq(queue, 1, Len(queue) - 1)
                ELSE [queue EXCEPT ![Len(queue)] = <<buy_shares - matched, buy_price>>],
              shares - matched, price, acc + matched * (price - buy_price))
    ELSE [queue |-> queue, gains |-> acc]

RECURSIVE RealizedMatchAlwaysPop(_, _, _, _)
\* faulty variant of RealizedMatch: a partly matched lot is removed like a fully matched one
RealizedMatchAlwaysPop(queue, shares, price, acc) ==
  IF shares > 0 /\ queue # <<>>
    THEN LET buy_shares == queue[1][1]
             buy_price == queue[1][2]
             matched == Min(shares, buy_shares)
         IN RealizedMatchAlwaysPop(Tail(queue), shares - matched, price,
                                   acc + matched * (price - buy_price))
    ELSE [queue |-> queue, gains |-> acc]

RECURSIVE RealizedMatch(_, _, _, _)
\* the while loop of realized_gains(): match a Sell against the oldest lots
RealizedMatch(queue, shares, price, acc) ==
  IF shares > 0 /\ queue # <<>>
    THEN LET buy_shares == queue[1][1]
             buy_price == queue[1][2]
             matched == Min(shares, buy_shares)
         IN RealizedMatch(
              IF matched = buy_shares
                THEN Tail(queue)
                ELSE [queue EXCEPT ![1] = <<buy_shares - matched, buy_price>>],
              shares - matched, price, acc + matched * (price - buy_price))
    ELSE [queue |-> queue, gains |-> acc]

\* one iteration of the for loop of realized_gains()
RealizedRow(st, row) ==
  IF row.type = "Buy"
    THEN [buy_queues |-> Put(st.buy_queues, row.symbol,
                             Append(Get(st.buy_queues, row.symbol),
                                    <<row.shares, row.price_per_share>>)),
          gains |-> st.gains]
    ELSE LET m == RealizedMatch(Get(st.buy_queues, row.symbol), row.shares,
                                row.price_per_share, st.gains)
         IN [buy_queues |-> Put(st.buy_queues, row.symbol, m.queue),
             gains |-> m.gains]

RECURSIVE RealizedFold(_, _)
\* buy_queues and gains after the first k rows
RealizedFold(d, k) ==
  IF k = 0 THEN [buy_queues |-> EmptyDict, gains |-> 0]
  ELSE RealizedRow(RealizedFold(d, k - 1), d[k])

\* realized_gains() as called by pnl()
realized_gains(d) == Round2(RealizedFold(d, Len(d)).gains)

\* ---------------------------------------------------------------- unrealized_gains
RECURSIVE UnrealizedMatch(_, _)
\* the while loop of unrealized_gains(): remove sold shares from the oldest lots
UnrealizedMatch(lots, to_sell) ==
  IF to_sell > 0 /\ lots # <<>>
    THEN LET qty == lots[1][1]
             price == lots[1][2]
             matched == Min(qty, to_sell)
         IN UnrealizedMatch(
              IF matched = qty
                THEN Tail(lots)
                ELSE [lots EXCEPT ![1] = <<qty - matched, price>>],
              to_sell - matched)
    ELSE lots

\* one iteration of the first loop of unrealized_gains()
UnrealizedRow(holdings, row) ==
  IF row.type = "Buy"
    THEN Put(holdings, row.symbol,
             Append(Get(holdings, row.symbol), <<row.shares, row.price_per_share>>))
    ELSE Put(holdings, row.symbol, UnrealizedMatch(Get(holdings, row.symbol), row.shares))

RECURSIVE UnrealizedHoldings(_, _)
\* holdings after the first k rows
UnrealizedHoldings(d, k) ==
  IF k = 0 THEN EmptyDict ELSE UnrealizedRow(UnrealizedHoldings(d, k - 1), d[k])

\* faulty variant of UnrealizedPriced: symbols without remaining shares are not skipped
UnrealizedPricedAll(holdings) == DOMAIN holdings

\* the symbols the second loop of unrealized_gains() asks a price for
UnrealizedPriced(holdings) ==
  {s \in DOMAIN holdings : SumShares(holdings[s]) # 0}

\* the second loop of unrealized_gains(); quote: symbol -> provider answer.
\* (current - total_cost / total_shares) * total_shares is computed as
\* current * total_shares - total_cost, the same real number.
UnrealizedResults(holdings, quote) ==
  [s \in UnrealizedPriced(holdings) |->
     Round2(get_live_price(quote[s]) * SumShares(holdings[s]) - SumCost(holdings[s]))]

unrealized_gains(d, quote) == UnrealizedResults(UnrealizedHoldings(d, Len(d)), quote)

\* ---------------------------------------------------------------- validate_trades
\* faulty variant of ValidateRow: the balance is clamped at zero after a Sell
ValidateRowClamped(st, row) ==
  LET owned == Get0(st.balances, row.symbol)
  IN IF row.type = "Buy"
       THEN [balances |-> Put(st.balances, row.symbol, owned + row.shares),
             errors |-> st.errors]
       ELSE [balances |-> Put(st.balances, row.symbol,
                              IF owned < row.shares THEN 0 ELSE owned - row.shares),
             errors |-> IF owned < row.shares
                          THEN Append(st.errors,
                                      [date |-> row.date, shares |-> row.shares,
                                       symbol |-> row.symbol, owned |-> owned])
                          ELSE st.errors]

\* faulty variant of ValidateRow: a Sell reported as a violation does not change the balance
ValidateRowSkipping(st, row) ==
  LET owned == Get0(st.balances, row.symbol)
  IN IF row.type = "Buy"
       THEN [balances |-> Put(st.balances, row.symbol, owned + row.shares),
             errors |-> st.errors]
       ELSE [balances |-> Put(st.balances, row.symbol,
                              IF owned < row.shares THEN owned ELSE owned - row.shares),
             errors |-> IF owned < row.shares
                          THEN Append(st.errors,
                                      [date |-> row.date, shares |-> row.shares,
                                       symbol |-> row.symbol, owned |-> owned])
                          ELSE st.errors]

\* one iteration of the loop of validate_trades(); the message is kept as its fields
ValidateRow(st, row) ==
  IF row.type = "Buy"
    THEN [balances |-> Put(st.balances, row.symbol, Get0(st.balances, row.symbol) + row.shares),
          errors |-> st.errors]
    ELSE [balances |-> Put(st.balances, row.symbol, Get0(st.balances, row.symbol) - row.shares),
          errors |-> IF Get0(st.balances, row.symbol) < row.shares
                       THEN Append(st.errors,
                                   [date |-> row.date, shares |-> row.shares,
                                    symbol |-> row.symbol,
                                    owned |-> Get0(st.balances, row.symbol)])
                       ELSE st.errors]

RECURSIVE ValidateFold(_, _)
\* balances and errors after the first k rows
ValidateFold(d, k) ==
  IF k = 0 THEN [balances |-> EmptyDict, errors |-> <<>>]
  ELSE ValidateRow(ValidateFold(d, k - 1), d[k])

\* ---------------------------------------------------------------- pnl, trade_history
RECURSIVE SumValues(_)
\* sum(d.values())
SumValues(d) ==
  IF DOMAIN d = {} THEN 0
  ELSE LET k == CHOOSE x \in DOMAIN d : TRUE
       IN d[k] + SumValues([x \in (DOMAIN d) \ {k} |-> d[x]])

pnl(d, quote) ==
  [realized |-> realized_gains(d), unrealized |-> SumValues(unrealized_gains(d, quote))]

\* df[df['symbol'] == symbol].to_dict(orient='records')
trade_history(d, symbol) == SelectSeq(d, LAMBDA row : row.symbol = symbol)

\* ---------------------------------------------------------------- simulate_sell
RECURSIVE SimReplayMatch(_, _)
\* the inner while loop of the rebuild in simulate_sell()
SimReplayMatch(holdings, to_sell) ==
  IF to_sell > 0 /\ holdings # <<>>
    THEN LET qty == holdings[1][1]
             price == holdings[1][2]
             matched == Min(qty, to_sell)
         IN SimReplayMatch(
              IF matched = qty
                THEN Tail(holdings)
                ELSE [holdings EXCEPT ![1] = <<qty - matched, price>>],
              to_sell - matched)
    ELSE holdings

\* one iteration of the rebuild loop of simulate_sell()
SimRow(holdings, row, symbol) ==
  IF row.symbol # symbol THEN holdings
  ELSE IF row.type = "Buy"
    THEN Append(holdings, <<row.shares, row.price_per_share>>)
    ELSE SimReplayMatch(holdings, row.shares)

RECURSIVE SimHoldings(_, _, _)
\* holdings of simulate_sell(symbol, .) after the first k rows
SimHoldings(d, k, symbol) ==
  IF k = 0 THEN <<>> ELSE SimRow(SimHoldings(d, k - 1, symbol), d[k], symbol)

RECURSIVE SimMatchNewest(_, _, _, _)
\* faulty variant of SimMatch: the hypothetical sale takes the newest lot first
SimMatchNewest(holdings, to_sell, sell_price, proceeds) ==
  IF to_sell > 0 /\ holdings # <<>>
    THEN LET qty == holdings[Len(holdings)][1]
             buy_price == holdings[Len(holdings)][2]
             matched == Min(qty, to_sell)
         IN SimMatchNewest(
              IF matched = qty
                THEN SubSeq(holdings, 1, Len(holdings) - 1)
                ELSE [holdings EXCEPT ![Len(holdings)] = <<qty - matched, buy_price>>],
              to_sell - matched, sell_price,
              proceeds + matched * (sell_price - buy_price))
    ELSE proceeds

RECURSIVE SimMatch(_, _, _, _)
\* the final while loop of simulate_sell(): the hypothetical sale
SimMatch(holdings, to_sell, sell_price, proceeds) ==
  IF to_sell > 0 /\ holdings # <<>>
    THEN LET qty == holdings[1][1]
             buy_price == holdings[1][2]
             matched == Min(qty, to_sell)
         IN SimMatch(
              IF matched = qty
                THEN Tail(holdings)
                ELSE [holdings EXCEPT ![1] = <<qty - matched, buy_price>>],
              to_sell - matched, sell_price,
              proceeds + matched * (sell_price - buy_price))
    ELSE proceeds

\* faulty variant of simulate_sell: the hypothetical Sell is written to the ledger
simulate_sell_persisting(d, symbol, shares, answer) ==
  [df |-> Append(d, [date |-> Len(d) + 1, symbol |-> symbol, type |-> "Sell",
                     shares |-> shares, price_per_share |-> get_live_price(answer)]),
   proceeds |-> SimMatch(SimHoldings(d, Len(d), symbol), shares,
                         get_live_price(answer), 0)]

\* simulate_sell(symbol, shares) on ledger d when the provider answers `answer`:
\* the ledger it leaves behind and the unrounded proceeds
simulate_sell(d, symbol, shares, answer) ==
  [df |-> d,
   proceeds |-> SimMatch(SimHoldings(d, Len(d), symbol), shares,
                         get_live_price(answer), 0)]

\* ---------------------------------------------------------------- state machine
Init ==
  /\ df = <<>>
  /\ ledger0 = <<>>
  /\ call = [tool |-> "read_csv", symbol |-> "", shares |-> 0, done |-> FALSE]
  /\ i = 0
  /\ buy_queues = EmptyDict
  /\ gains = 0
  /\ balances = EmptyDict
  /\ errors = <<>>
  /\ fetched = EmptyDict
  /\ result = NoResult

\* locals of the row-by-row tools do not outlive their call
NoLocals ==
  /\ i' = 0
  /\ buy_queues' = EmptyDict
  /\ gains' = 0
  /\ balances' = EmptyDict
  /\ errors' = <<>>

\* pd.read_csv reads one more row of the table: any row, while the table trades
\* at most MaxUnits shares; shares is a positive integer
LoadRow ==
  /\ call.tool = "read_csv"
  /\ \E n \in 1..(MaxUnits - TotalShares(df)) :
       \E r \in Rows(Len(df) + 1, n) :
         /\ df' = Append(df, r)
         /\ ledger0' = Append(df, r)
  /\ UNCHANGED <<call, i, buy_queues, gains, balances, errors, fetched, result>>

\* the table is read; the server starts and waits for a request
Loaded ==
  /\ call.tool = "read_csv"
  /\ call' = NoCall
  /\ UNCHANGED <<df, ledger0, i, buy_queues, gains, balances, errors, fetched, result>>

Begin(tool, symbol, shares) ==
  /\ call = NoCall
  /\ call' = [tool |-> tool, symbol |-> symbol, shares |-> shares, done |-> FALSE]
  /\ result' = NoResult
  /\ fetched' = EmptyDict

Atomic(tool, symbol, shares) ==
  /\ call = NoCall
  /\ call' = [tool |-> tool, symbol |-> symbol, shares |-> shares, done |-> TRUE]
  /\ NoLocals

Portfolio ==
  /\ Atomic("portfolio", "", 0)
  /\ result' = [kind |-> "dict", value |-> portfolio(df), raw |-> 0]
  /\ fetched' = EmptyDict
  /\ UNCHANGED <<df, ledger0>>

RealizedBegin ==
  /\ Begin("realized_gains", "", 0)
  /\ NoLocals
  /\ UNCHANGED <<df, ledger0>>

RealizedStep ==
  /\ call.tool = "realized_gains" /\ ~call.done
  /\ i < Len(df)
  /\ LET st == RealizedRow([buy_queues |-> buy_queues, gains |-> gains], df[i + 1])
     IN /\ buy_queues' = st.buy_queues
        /\ gains' = st.gains
  /\ i' = i + 1
  /\ UNCHANGED <<df, ledger0, call, balances, errors, fetched, result>>

RealizedReturn ==
  /\ call.tool = "realized_gains" /\ ~call.done
  /\ i = Len(df)
  /\ result' = Float(gains)
  /\ call' = [call EXCEPT !.done = TRUE]
  /\ NoLocals
  /\ UNCHANGED <<df, ledger0, fetched>>

ValidateBegin ==
  /\ Begin("validate_trades", "", 0)
  /\ NoLocals
  /\ UNCHANGED <<df, ledger0>>

ValidateStep ==
  /\ call.tool = "validate_trades" /\ ~call.done
  /\ i < Len(df)
  /\ LET st == ValidateRow([balances |-> balances, errors |-> errors], df[i + 1])
     IN /\ balances' = st.balances
        /\ errors' = st.errors
  /\ i' = i + 1
  /\ UNCHANGED <<df, ledger0, call, buy_queues, gains, fetched, result>>

ValidateReturn ==
  /\ call.tool = "validate_trades" /\ ~call.done
  /\ i = Len(df)
  /\ result' = [kind |-> "list", value |-> errors, raw |-> 0]
  /\ call' = [call EXCEPT !.done = TRUE]
  /\ NoLocals
  /\ UNCHANGED <<df, ledger0, fetched>>

UnrealizedGains ==
  /\ Atomic("unrealized_gains", "", 0)
  /\ \E quote \in [UnrealizedPriced(UnrealizedHoldings(df, Len(df))) -> ProviderAnswers] :
       /\ fetched' = quote
       /\ result' = [kind |-> "dict", value |-> unrealized_gains(df, quote), raw |-> 0]
  /\ UNCHANGED <<df, ledger0>>

CurrentPrice ==
  \E symbol \in Symbols, answer \in ProviderAnswers :
    /\ Atomic("current_price", symbol, 0)
    /\ fetched' = Put(EmptyDict, symbol, answer)
    /\ result' = [kind |-> "float", value |-> get_live_price(answer),
                  raw |-> get_live_price(answer)]
    /\ UNCHANGED <<df, ledger0>>

Pnl ==
  /\ Atomic("pnl", "", 0)
  /\ \E quote \in [UnrealizedPriced(UnrealizedHoldings(df, Len(df))) -> ProviderAnswers] :
       /\ fetched' = quote
       /\ result' = [kind |-> "dict", value |-> pnl(df, quote), raw |-> 0]
  /\ UNCHANGED <<df, ledger0>>

TradeHistory ==
  \E symbol \in Symbols :
    /\ Atomic("trade_history", symbol, 0)
    /\ fetched' = EmptyDict
    /\ result' = [kind |-> "list", value |-> trade_history(df, symbol), raw |-> 0]
    /\ UNCHANGED <<df, ledger0>>

SimulateSell ==
  \E symbol \in Symbols, shares \in SimShares, answer \in ProviderAnswers :
    /\ Atomic("simulate_sell", symbol, shares)
    /\ fetched' = Put(EmptyDict, symbol, answer)
    /\ LET r == simulate_sell(df, symbol, shares, answer)
       IN /\ df' = r.df
          /\ result' = Float(r.proceeds)
    /\ UNCHANGED ledger0

\* the result is sent and the server waits for the next request
Respond ==
  /\ call.done
  /\ call' = NoCall
  /\ result' = NoResult
  /\ fetched' = EmptyDict
  /\ UNCHANGED <<df, ledger0, i, buy_queues, gains, balances, errors>>

Next ==
  \/ LoadRow \/ Loaded
  \/ Portfolio
  \/ RealizedBegin \/ RealizedStep \/ RealizedReturn
  \/ ValidateBegin \/ ValidateStep \/ ValidateReturn
  \/ UnrealizedGains
  \/ CurrentPrice
  \/ Pnl
  \/ TradeHistory
  \/ SimulateSell
  \/ Respond

Spec == Init /\ [][Next]_vars

\* ---------------------------------------------------------------- reference definitions
\* the rows among the first k that trade symbol s with type t
RowsOf(d, k, s, t) == {j \in 1..k : d[j].symbol = s /\ d[j].type = t}

RECURSIVE SharesOver(_, _)
\* total shares of the rows J
SharesOver(d, J) ==
  IF J = {} THEN 0
  ELSE LET j == CHOOSE x \in J : TRUE IN d[j].shares + SharesOver(d, J \ {j})

Bought(d, k, s) == SharesOver(d, RowsOf(d, k, s, "Buy"))
Sold(d, k, s) == SharesOver(d, RowsOf(d, k, s, "Sell"))

\* bought minus sold shares of s over the first k rows
Net(d, k, s) == Bought(d, k, s) - Sold(d, k, s)

RECURSIVE UnitCosts(_, _, _)
\* the unit cost of every share of s bought in the first k rows, oldest first
UnitCosts(d, k, s) ==
  IF k = 0 THEN <<>>
  ELSE UnitCosts(d, k - 1, s) \o
       (IF d[k].symbol = s /\ d[k].type = "Buy"
          THEN [x \in 1..d[k].shares |-> d[k].price_per_share]
          ELSE <<>>)

RECURSIVE Consumed(_, _, _)
\* how many of the bought shares of s the Sells among the first k rows have matched
Consumed(d, k, s) ==
  IF k = 0 THEN 0
  ELSE LET c == Consumed(d, k - 1, s)
       IN IF d[k].symbol = s /\ d[k].type = "Sell"
            THEN c + Min(d[k].shares, Bought(d, k - 1, s) - c)
            ELSE c

RECURSIVE SumOver(_, _, _)
\* sum over the units U of (price - cost of the unit)
SumOver(U, costs, price) ==
  IF U = {} THEN 0
  ELSE LET u == CHOOSE x \in U : TRUE
       IN (price - costs[u]) + SumOver(U \ {u}, costs, price)

\* the units of its symbol that row k matches (empty for a Buy)
MatchedUnits(d, k) ==
  (Consumed(d, k - 1, d[k].symbol) + 1)..Consumed(d, k, d[k].symbol)

\* what the FIFO matches of row k are worth at that row's own price
MatchGain(d, k) ==
  SumOver(MatchedUnits(d, k), UnitCosts(d, k, d[k].symbol), d[k].price_per_share)

RECURSIVE FifoSum(_, _)
\* the sum over every FIFO match made by the first k rows
FifoSum(d, k) == IF k = 0 THEN 0 ELSE FifoSum(d, k - 1) + MatchGain(d, k)

RECURSIVE ExpectedViolations(_, _)
\* the Sells among the first k rows that exceed the balance before them
ExpectedViolations(d, k) ==
  IF k = 0 THEN <<>>
  ELSE ExpectedViolations(d, k - 1) \o
       (IF d[k].type = "Sell" /\ d[k].shares > Net(d, k - 1, d[k].symbol)
          THEN <<[date |-> d[k].date, shares |-> d[k].shares, symbol |-> d[k].symbol,
                  owned |-> Net(d, k - 1, d[k].symbol)]>>
          ELSE <<>>)

\* remaining shares of s in the FIFO queue of realized_gains after k rows
QueueShares(d, k, s) == SumShares(Get(RealizedFold(d, k).buy_queues, s))

\* row k is a Sell that FIFO matching cannot match in full
Dropped(d, k) ==
  d[k].type = "Sell" /\ d[k].shares > QueueShares(d, k - 1, d[k].symbol)

Running(tool) == call.tool = tool /\ ~call.done
Returned(tool) == call.tool = tool /\ call.done

\* ---------------------------------------------------------------- C1
\* C1 as stated: realized_gains() returns the sum over every FIFO match of
\* matched_quantity * (the Sell's price - the lot's unit cost).
C1_ReturnsFifoSum ==
  Returned("realized_gains") => result.value = FifoSum(df, Len(df))

\* C1 amended: during the replay the accumulator is the sum over every FIFO
\* match made so far, and realized_gains() returns that sum rounded to two
\* decimals.
C1_ReturnsRoundedFifoSum ==
  /\ Running("realized_gains") => gains = FifoSum(df, i)
  /\ Returned("realized_gains") =>
       /\ result.raw = FifoSum(df, Len(df))
       /\ result.value = Round2(FifoSum(df, Len(df)))

\* a Sell spanning two lots of different cost, with a sum that rounding changes
C1_Witness ==
  /\ Returned("realized_gains")
  /\ result.value # result.raw
  /\ \E k \in 1..Len(df) :
       LET U == MatchedUnits(df, k)
           costs == UnitCosts(df, k, df[k].symbol)
       IN \E u, v \in U : costs[u] # costs[v]

\* ---------------------------------------------------------------- C2
\* C2: validate_trades() returns, in ledger order, exactly one violation per
\* Sell whose shares exceed the symbol's running balance before it; the balance
\* is bought minus sold over the earlier rows, never clamped, and is reported
\* as the shares owned.
C2_ViolationsExact ==
  /\ Running("validate_trades") =>
       /\ errors = ExpectedViolations(df, i)
       /\ \A s \in Symbols : Get0(balances, s) = Net(df, i, s)
  /\ Returned("validate_trades") => result.value = ExpectedViolations(df, Len(df))

\* a violation reported against a negative balance
C2_Witness ==
  /\ Returned("validate_trades")
  /\ \E n \in 1..Len(result.value) : result.value[n].owned < 0

\* ---------------------------------------------------------------- C3
\* C3: portfolio() returns exactly the symbols whose bought minus sold shares
\* is strictly positive, each mapped to that difference; a symbol with only
\* Buy rows maps to its total bought shares.
C3_PortfolioExact ==
  Returned("portfolio") =>
    /\ DOMAIN result.value = {s \in Symbols : Net(df, Len(df), s) > 0}
    /\ \A s \in DOMAIN result.value : result.value[s] = Net(df, Len(df), s)
    /\ \A s \in Symbols :
         (Bought(df, Len(df), s) > 0 /\ RowsOf(df, Len(df), s, "Sell") = {}) =>
           (s \in DOMAIN result.value /\ result.value[s] = Bought(df, Len(df), s))

\* one symbol held, one with a zero balance and traded
C3_Witness ==
  /\ Returned("portfolio")
  /\ \E s, t \in Symbols :
       /\ s \in DOMAIN result.value
       /\ t \notin DOMAIN result.value
       /\ Bought(df, Len(df), t) > 0
       /\ Net(df, Len(df), t) = 0

\* ---------------------------------------------------------------- C4
\* C4: simulate_sell leaves the ledger as it was loaded, so portfolio() and
\* realized_gains() return what they return on the loaded ledger, whatever
\* calls were made before.
C4_SimulateSellIsPure ==
  /\ df = ledger0
  /\ Returned("portfolio") => result.value = portfolio(ledger0)
  /\ Returned("realized_gains") => result.value = realized_gains(ledger0)

\* a simulate_sell that matched lots has returned
C4_Witness ==
  /\ Returned("simulate_sell")
  /\ call.shares > 0
  /\ fetched[call.symbol].ok
  /\ SimHoldings(df, Len(df), call.symbol) # <<>>
  /\ result.raw # 0

\* ---------------------------------------------------------------- C5
\* C5: a failed price fetch is an explicit signal and never a number:
\* current_price does not return a number for it, unrealized_gains() has no
\* numeric entry computed from it, simulate_sell does not return a number
\* computed from it.
C5_UnavailableIsExplicit ==
  /\ (Returned("current_price") /\ ~fetched[call.symbol].ok) => result.kind # "float"
  /\ Returned("unrealized_gains") => \A s \in DOMAIN result.value : fetched[s].ok
  /\ (/\ Returned("simulate_sell")
      /\ ~fetched[call.symbol].ok
      /\ call.shares > 0
      /\ SimHoldings(df, Len(df), call.symbol) # <<>>) => result.kind # "float"

\* ---------------------------------------------------------------- C6
\* C6: unrealized_gains() has an entry for a symbol exactly when the symbol's
\* FIFO lot queue holds remaining shares after the full replay.
C6_EntryIffSharesRemain ==
  Returned("unrealized_gains") =>
    /\ DOMAIN result.value = {s \in Symbols : QueueShares(df, Len(df), s) > 0}
    /\ DOMAIN result.value =
         {s \in Symbols : Bought(df, Len(df), s) - Consumed(df, Len(df), s) > 0}

\* a fully sold symbol without entry beside a held symbol with one
C6_Witness ==
  /\ Returned("unrealized_gains")
  /\ \E s, t \in Symbols :
       /\ Bought(df, Len(df), s) > 0
       /\ s \notin DOMAIN result.value
       /\ t \in DOMAIN result.value
       /\ fetched[t].ok

\* ---------------------------------------------------------------- C7
\* C7: simulate_sell with shares <= 0 or with a symbol that does not occur in
\* the ledger returns a structured error, not a number.
C7_InputErrorRejected ==
  (/\ Returned("simulate_sell")
   /\ \/ call.shares <= 0
      \/ \A j \in 1..Len(df) : df[j].symbol # call.symbol) => result.kind = "error"

\* ---------------------------------------------------------------- C8
\* C8 as stated: at every point of the replay the remaining shares of every
\* symbol's queue equal its bought minus sold shares so far, and are never
\* negative.
C8_QueueEqualsNet ==
  Running("realized_gains") =>
    \A s \in Symbols :
      /\ SumShares(Get(buy_queues, s)) = Net(df, i, s)
      /\ SumShares(Get(buy_queues, s)) >= 0

\* C8 amended: the remaining shares are never negative and never less than the
\* bought minus sold shares so far; they equal it as long as no Sell of the
\* symbol so far asked for more than the balance before it.
C8_QueueAtLeastNet ==
  Running("realized_gains") =>
    \A s \in Symbols :
      /\ SumShares(Get(buy_queues, s)) >= 0
      /\ SumShares(Get(buy_queues, s)) >= Net(df, i, s)
      /\ (\A k \in RowsOf(df, i, s, "Sell") : df[k].shares <= Net(df, k - 1, s)) =>
           SumShares(Get(buy_queues, s)) = Net(df, i, s)
      /\ \A n \in 1..Len(Get(buy_queues, s)) : buy_queues[s][n][1] > 0

\* after an oversized Sell and a later Buy the queue holds more than the net
C8_Witness ==
  /\ Running("realized_gains")
  /\ \E s \in Symbols :
       /\ SumShares(Get(buy_queues, s)) > 0
       /\ SumShares(Get(buy_queues, s)) > Net(df, i, s)

\* ---------------------------------------------------------------- C9
\* C9: simulate_sell(s, n) with n > 0 at live price P is, before rounding,
\* realized_gains on the ledger with Sell(s, n, P) appended minus
\* realized_gains on the ledger; the queue it rebuilds for s is the one the
\* realized and unrealized replays end with; the part of n beyond the
\* remaining shares adds nothing.
C9_SimulateMatchesReplay ==
  (Returned("simulate_sell") /\ call.shares > 0) =>
    LET s == call.symbol
        n == call.shares
        P == get_live_price(fetched[s])
        extra == [date |-> Len(df) + 1, symbol |-> s, type |-> "Sell", shares |-> n,
                  price_per_share |-> P]
        rebuilt == SimHoldings(df, Len(df), s)
    IN /\ result.raw = RealizedFold(Append(df, extra), Len(df) + 1).gains
                       - RealizedFold(df, Len(df)).gains
       /\ rebuilt = Get(RealizedFold(df, Len(df)).buy_queues, s)
       /\ rebuilt = Get(UnrealizedHoldings(df, Len(df)), s)
       /\ result.raw = simulate_sell(df, s, Min(n, SumShares(rebuilt)), fetched[s]).proceeds

\* more shares asked than remain, over two lots of different cost, after a
\* real Sell that was matched
C9_Witness ==
  /\ Returned("simulate_sell")
  /\ fetched[call.symbol].ok
  /\ Consumed(df, Len(df), call.symbol) > 0
  /\ LET rebuilt == SimHoldings(df, Len(df), call.symbol)
     IN /\ Len(rebuilt) >= 2
        /\ rebuilt[1][2] # rebuilt[2][2]
        /\ call.shares > SumShares(rebuilt)

\* ---------------------------------------------------------------- C10
\* C10: at every point of the replay the remaining shares of a symbol's FIFO
\* queue are at least validate_trades' running balance, and equal to it while
\* no violation is recorded for the symbol; every Sell that FIFO matching
\* cannot match in full is reported by validate_trades.
C10_QueueDominatesBalance ==
  /\ Running("validate_trades") =>
       /\ \A s \in Symbols :
            /\ QueueShares(df, i, s) >= Get0(balances, s)
            /\ (\A n \in 1..Len(errors) : errors[n].symbol # s) =>
                 QueueShares(df, i, s) = Get0(balances, s)
       /\ \A k \in 1..i :
            Dropped(df, k) => \E n \in 1..Len(errors) : errors[n].date = df[k].date
  /\ Returned("validate_trades") =>
       \A k \in 1..Len(df) :
         Dropped(df, k) => \E n \in 1..Len(result.value) : result.value[n].date = df[k].date

\* a reported Sell that FIFO matching matches in full
C10_Witness ==
  /\ Returned("validate_trades")
  /\ \E n \in 1..Len(result.value) :
       \E k \in 1..Len(df) :
         /\ df[k].date = result.value[n].date
         /\ ~Dropped(df, k)

====
